---- MODULE Spec2Model ----
(***************************************************************************)
(* The cart / order core of the storefront GUI (src/GUI.py, StoreApp).     *)
(*                                                                         *)
(* State: the product list (price, stock), the cart (a Python dict, kept   *)
(* here as the sequence of its entries in insertion order), the rows of    *)
(* the orders table, the open cart windows (the rows of their tree and the *)
(* subtotal label they were built with) and the open checkout windows      *)
(* (the subtotal their place_order closure captured).  Every Tk callback   *)
(* runs on the single GUI thread and is one action, with one exception:    *)
(* a message box runs an event loop of its own until it is dismissed, and  *)
(* place_order shows its "Order placed" box between save_order and the     *)
(* stock update, so that callback is two actions, with the window          *)
(* manager's close buttons usable in between (the box holds the grab, so   *)
(* no button of another window is).  The close button of the main window   *)
(* destroys the application: in the main loop that ends the program; in    *)
(* the box it makes showinfo raise TclError, and place_order ends there,   *)
(* its row saved and its stock loop never run.  The "Add to Cart" buttons   *)
(* of the detail panel and of the detail popup are lambdas that call       *)
(* add_to_cart and then show the "Added" box: when add_to_cart shows its   *)
(* "Stock" warning, that box too is in the middle of the callback, which   *)
(* is two actions then, and the close of the main window in the box ends   *)
(* it by TclError before "Added".  Every other box is the last thing its   *)
(* callback does before returning, so those callbacks are one action.      *)
(* `pc` is the position of the GUI thread; `last` records the callback     *)
(* that ran last: which one, the branch it ended in and the message boxes  *)
(* it showed; `earlier` is the number of rows the orders table held when   *)
(* the program was launched (the table outlives the process, the stock     *)
(* does not).                                                              *)
(*                                                                         *)
(* StoreApp(SAMPLE_PRODUCTS), as main() calls it, raises TypeError in      *)
(* the Product constructor: the seed dicts carry the key "id" and          *)
(* Product.__init__ names its parameter pid.  A launch is either that one, *)
(* which ends there, or StoreApp on products_data that carries the same    *)
(* values under the key pid.                                               *)
(*                                                                         *)
(* Money: a Decimal is kept as an integer number of 10^-6 dollars          *)
(* (Decimal(19.99) is 19.98999999999999843..., kept as 19989999); a value  *)
(* quantized to 2 decimals is kept as an integer number of cents.          *)
(***************************************************************************)
EXTENDS Integers, Sequences, FiniteSets, TLC

\* ------------------------------------------------------------------ bounds
NumProducts == 2
MaxStock == 2
MaxOrders == 1
MaxRepeatOrders == 3
MaxCartWins == 1
MaxCheckoutWins == 1
MaxEarlierOrders == 1

\* ------------------------------------------------------- seed product data
\* SAMPLE_PRODUCTS: id, price (Decimal(<float literal>) in 10^-6 dollars,
\* rounded down), stock.
SAMPLE_PRODUCTS ==
    << [id |-> 1, price |-> 19989999,  stock |-> 25],
       [id |-> 2, price |-> 89500000,  stock |-> 10],
       [id |-> 3, price |-> 24000000,  stock |-> 40],
       [id |-> 4, price |-> 120000000, stock |-> 8],
       [id |-> 5, price |-> 45250000,  stock |-> 15],
       [id |-> 6, price |-> 12750000,  stock |-> 50] >>

Min(a, b) == IF a <= b THEN a ELSE b

\* A products_data that StoreApp accepts: the first NumProducts seed
\* products under the keys of Product.__init__ (pid for id), the stock of the
\* first capped at MaxStock and the stock of the others at one less.
StockCap(i) == IF i = 1 THEN MaxStock ELSE MaxStock - 1

ProductsData ==
    [i \in 1..NumProducts |->
        [pid   |-> SAMPLE_PRODUCTS[i].id,
         price |-> SAMPLE_PRODUCTS[i].price,
         stock |-> Min(SAMPLE_PRODUCTS[i].stock, StockCap(i))]]

Pids == {ProductsData[i].pid : i \in 1..NumProducts}

\* What a quantity spinbox can deliver through IntVar.get(): any integer
\* (the spinbox is editable); here from 0 to one more than MaxStock.
QtyInputs == 0..(MaxStock + 1)

\* What the checkout form can hold when "Place Order" is pressed: name,
\* email, address (the Text widget's content always ends in a newline).
FormInputs ==
    { <<"Ann", "ann@example.org", "1 Main St\n">>,
      <<"",    "ann@example.org", "1 Main St\n">>,
      <<" ",   "ann@example.org", "1 Main St\n">>,
      <<"Ann", "",                "1 Main St\n">>,
      <<"Ann", "ann@example.org", "\n">>,
      <<"",    "",                "\n">> }

NoSel == 0

\* Rows an earlier run of the program left in orders.db: an order of one
\* unit of the first seed product by another customer.
EarlierRows ==
    { [customer_name |-> "Bob", email |-> "bob@example.org",
       address |-> "2 Side St", total |-> 1999,
       details |-> <<[qty |-> 1, pid |-> 1, line |-> 1999]>>] }

\* The orders table as init_db finds it (CREATE TABLE IF NOT EXISTS): empty,
\* or holding up to MaxEarlierOrders rows of earlier runs.
EarlierOrders == UNION { [1..n -> EarlierRows] : n \in 0..MaxEarlierOrders }

VARIABLES products, cart, orders, cartWins, checkoutWins, last, pc, earlier
vars == <<products, cart, orders, cartWins, checkoutWins, last, pc, earlier>>

\* ------------------------------------------------------------ pure helpers
\* quantize with the digits after the second decimal cut off (ROUND_DOWN).
quantize_truncate(x) ==
    IF x >= 0 THEN x \div 10000
              ELSE 0 - ((0 - x) \div 10000)

\* Decimal.quantize(Decimal("0.01"), rounding=ROUND_HALF_UP) of a value in
\* 10^-6 dollars: the number of cents, halves rounded away from zero.
quantize(x) ==
    IF x >= 0 THEN (x + 5000) \div 10000
              ELSE 0 - (((0 - x) + 5000) \div 10000)

\* CartItem.line_total, in cents; item.product is a reference into products.
line_total(prods, item) == quantize(prods[item.pid].price * item.qty)

\* The sum taken over the unit prices of the entries, their quantities left
\* out.
RECURSIVE subtotal_of_unit_prices(_, _)
subtotal_of_unit_prices(prods, c) ==
    IF c = <<>> THEN 0
    ELSE quantize(prods[Head(c).pid].price)
         + subtotal_of_unit_prices(prods, Tail(c))

\* sum(item.line_total for item in self.cart.values()), in cents.
RECURSIVE subtotal_of(_, _)
subtotal_of(prods, c) ==
    IF c = <<>> THEN 0
    ELSE line_total(prods, Head(c)) + subtotal_of(prods, Tail(c))

\* product.id in self.cart
InCart(c, p) == \E i \in 1..Len(c) : c[i].pid = p

\* self.cart[p].qty
QtyOf(c, p) == c[CHOOSE i \in 1..Len(c) : c[i].pid = p].qty

\* self.cart[p].qty = q  (the entry keeps its place in the dict)
SetQty(c, p, q) ==
    [i \in 1..Len(c) |-> IF c[i].pid = p THEN [c[i] EXCEPT !.qty = q] ELSE c[i]]

\* self.cart[p] = CartItem(product, q) for a new key: appended to the dict
NewItem(c, p, q) == Append(c, [pid |-> p, qty |-> q])

\* del self.cart[p]
RECURSIVE DelItem(_, _)
DelItem(c, p) ==
    IF c = <<>> THEN <<>>
    ELSE IF Head(c).pid = p THEN DelItem(Tail(c), p)
    ELSE <<Head(c)>> \o DelItem(Tail(c), p)

\* the keys of self.cart
CartPids(c) == {c[i].pid : i \in 1..Len(c)}

\* str.strip() on a field text
strip(s) ==
    CASE s = " " -> ""
      [] s = "\n" -> ""
      [] s = "1 Main St\n" -> "1 Main St"
      [] OTHER -> s

\* The details lines place_order builds, one per cart entry.
RECURSIVE details_of(_, _)
details_of(prods, c) ==
    IF c = <<>> THEN <<>>
    ELSE <<[qty  |-> Head(c).qty,
            pid  |-> Head(c).pid,
            line |-> line_total(prods, Head(c))]>>
         \o details_of(prods, Tail(c))

\* for item in list(self.cart.values()): item.product.stock -= item.qty
RECURSIVE reduce_stock(_, _)
reduce_stock(prods, c) ==
    IF c = <<>> THEN prods
    ELSE reduce_stock(
            [prods EXCEPT ![Head(c).pid].stock = @ - Head(c).qty], Tail(c))

\* ------------------------------------------------------------------- state
ClosedCartWin == [open |-> FALSE, rows |-> {}, subtotal |-> 0]
ClosedCheckoutWin == [open |-> FALSE, subtotal |-> 0]

\* A callback's record: its name, the branch it ended in ("returned": an
\* early return; an exception's name: it raised; anything else: it ran to
\* its end) and the titles of the message boxes it showed, in order.
Event(op, status, dialogs) ==
    [op |-> op, status |-> status, dialogs |-> dialogs]

\* The position of the GUI thread, with the message boxes the callback it is
\* in has shown so far: in the main event loop; in the event loop of the
\* "Order placed" box of the place_order of checkout window win; in the
\* event loop of the "Stock" warning of an add_to_cart called by the lambda
\* of the detail panel or of the detail popup; past app.mainloop(), the main
\* window destroyed; or nowhere, StoreApp.__init__ having raised TypeError.
AtMainloop == [at |-> "mainloop", win |-> 0, dialogs |-> <<>>]
AtOrderPlacedBox(w) ==
    [at |-> "place_order: showinfo", win |-> w, dialogs |-> <<"Order placed">>]
AtStockBox(button, dialogs) ==
    [at |-> button, win |-> 0, dialogs |-> dialogs]
AtExit == [at |-> "exit", win |-> 0, dialogs |-> <<>>]
AtTypeError == [at |-> "TypeError", win |-> 0, dialogs |-> <<>>]

\* The thread is in the "Stock" warning of an add_to_cart that one of the two
\* lambdas called.
InStockBox ==
    pc.at \in {"open_product_detail: showwarning",
               "open_product_popup: showwarning"}

\* An event loop is running: the main one or the one of a box.
InEventLoop ==
    pc.at \in {"mainloop", "place_order: showinfo"} \/ InStockBox

\* Product(**p) for every dict of products_data: the keys must be parameter
\* names of Product.__init__ (pid, price, stock; name, category and desc are
\* left out here), or the call raises TypeError.
ProductsAccepted(data) ==
    \A i \in 1..Len(data) : DOMAIN data[i] = {"pid", "price", "stock"}

\* init_db() and StoreApp(data), and the session taken up with no window
\* open and a cart out of carts.  The orders table is what earlier runs
\* left.  When __init__ raises, self.products and self.cart are never
\* assigned and the main loop is never entered.
Started(data, carts) ==
    /\ orders \in EarlierOrders
    /\ earlier = Len(orders)
    /\ cartWins = [w \in 1..MaxCartWins |-> ClosedCartWin]
    /\ checkoutWins = [w \in 1..MaxCheckoutWins |-> ClosedCheckoutWin]
    /\ IF ProductsAccepted(data) THEN
          /\ products = [p \in {data[i].pid : i \in 1..Len(data)} |->
                LET d == data[CHOOSE i \in 1..Len(data) : data[i].pid = p]
                IN  [price |-> d.price, stock |-> d.stock]]
          /\ cart \in carts
          /\ last = Event("init", "done", <<>>)
          /\ pc = AtMainloop
       ELSE
          /\ products = <<>>
          /\ cart = <<>>
          /\ last = Event("init", "TypeError", <<>>)
          /\ pc = AtTypeError

\* init_db() and StoreApp(data): the state when __init__ returns or raises.
Launch(data) == Started(data, {<<>>})

\* main() as written, StoreApp(SAMPLE_PRODUCTS), or StoreApp on the data
\* keyed pid.
Init ==
    \/ Launch(SAMPLE_PRODUCTS)
    \/ Launch(ProductsData)

\* ------------------------------------------------------------- add_to_cart
\* add_to_cart without the check of the summed quantity against the stock.
add_to_cart_no_total_check(c, prods, p, qty) ==
    IF qty <= 0 THEN
        [cart |-> c, dialogs |-> <<>>, status |-> "returned"]
    ELSE IF prods[p].stock < qty THEN
        [cart |-> c, dialogs |-> <<"Stock: not enough for that quantity">>,
         status |-> "returned"]
    ELSE IF InCart(c, p) THEN
        [cart |-> SetQty(c, p, QtyOf(c, p) + qty), dialogs |-> <<>>,
         status |-> "incremented"]
    ELSE
        [cart |-> NewItem(c, p, qty), dialogs |-> <<>>, status |-> "created"]

\* add_to_cart storing the requested quantity in an existing entry instead
\* of adding it.
add_to_cart_overwrite(c, prods, p, qty) ==
    IF qty <= 0 THEN
        [cart |-> c, dialogs |-> <<>>, status |-> "returned"]
    ELSE IF prods[p].stock < qty THEN
        [cart |-> c, dialogs |-> <<"Stock: not enough for that quantity">>,
         status |-> "returned"]
    ELSE IF InCart(c, p) THEN
        LET new_qty == QtyOf(c, p) + qty IN
        IF new_qty > prods[p].stock THEN
            [cart |-> c, dialogs |-> <<"Stock: not enough to increase">>,
             status |-> "returned"]
        ELSE
            [cart |-> SetQty(c, p, qty), dialogs |-> <<>>,
             status |-> "incremented"]
    ELSE
        [cart |-> NewItem(c, p, qty), dialogs |-> <<>>, status |-> "created"]

\* add_to_cart rejecting a quantity equal to the stock (<= for <).
add_to_cart_strict(c, prods, p, qty) ==
    IF qty <= 0 THEN
        [cart |-> c, dialogs |-> <<>>, status |-> "returned"]
    ELSE IF prods[p].stock <= qty THEN
        [cart |-> c, dialogs |-> <<"Stock: not enough for that quantity">>,
         status |-> "returned"]
    ELSE IF InCart(c, p) THEN
        LET new_qty == QtyOf(c, p) + qty IN
        IF new_qty > prods[p].stock THEN
            [cart |-> c, dialogs |-> <<"Stock: not enough to increase">>,
             status |-> "returned"]
        ELSE
            [cart |-> SetQty(c, p, new_qty), dialogs |-> <<>>,
             status |-> "incremented"]
    ELSE
        [cart |-> NewItem(c, p, qty), dialogs |-> <<>>, status |-> "created"]

\* The body of StoreApp.add_to_cart: the cart it leaves, the message boxes
\* it shows, and the branch it ends in (an early return, an existing entry
\* incremented, a new entry created).
add_to_cart(c, prods, p, qty) ==
    IF qty <= 0 THEN
        [cart |-> c, dialogs |-> <<>>, status |-> "returned"]
    ELSE IF prods[p].stock < qty THEN
        [cart |-> c, dialogs |-> <<"Stock: not enough for that quantity">>,
         status |-> "returned"]
    ELSE IF InCart(c, p) THEN
        LET new_qty == QtyOf(c, p) + qty IN
        IF new_qty > prods[p].stock THEN
            [cart |-> c, dialogs |-> <<"Stock: not enough to increase">>,
             status |-> "returned"]
        ELSE
            [cart |-> SetQty(c, p, new_qty), dialogs |-> <<>>,
             status |-> "incremented"]
    ELSE
        [cart |-> NewItem(c, p, qty), dialogs |-> <<>>, status |-> "created"]

\* The card button reserving the unit it adds: the stock drops with the add.
AddFromCard_reserve(p) ==
    LET r == add_to_cart(cart, products, p, 1) IN
    /\ pc = AtMainloop
    /\ cart' = r.cart
    /\ products' = IF r.status = "returned" THEN products
                   ELSE [products EXCEPT ![p].stock = @ - 1]
    /\ last' = Event("add_to_cart", r.status, r.dialogs)
    /\ UNCHANGED <<orders, cartWins, checkoutWins, pc, earlier>>

\* "Add to Cart" on a product card: add_to_cart(p, 1).
AddFromCard(p) ==
    LET r == add_to_cart(cart, products, p, 1) IN
    /\ pc = AtMainloop
    /\ cart' = r.cart
    /\ last' = Event("add_to_cart", r.status, r.dialogs)
    /\ UNCHANGED <<products, orders, cartWins, checkoutWins, pc, earlier>>

\* "Add to Cart" of the product-detail panel, a lambda: add_to_cart(product,
\* qty_var.get()) and then the "Added" message box; up to its return or,
\* when add_to_cart shows its "Stock" warning, up to that box, which waits
\* for its OK in an event loop of its own (status "showwarning").  When
\* add_to_cart shows no box, the "Added" box follows at once, whatever
\* add_to_cart did, and is the last thing the lambda does.
AddFromDetail(p, qty) ==
    LET r == add_to_cart(cart, products, p, qty) IN
    /\ pc = AtMainloop
    /\ cart' = r.cart
    /\ IF r.dialogs = <<>> THEN
          /\ last' = Event("add_to_cart", r.status, <<"Added">>)
          /\ UNCHANGED pc
       ELSE
          /\ last' = Event("add_to_cart", "showwarning", r.dialogs)
          /\ pc' = AtStockBox("open_product_detail: showwarning", r.dialogs)
    /\ UNCHANGED <<products, orders, cartWins, checkoutWins, earlier>>

\* "Add to cart" of the detail popup, a lambda: add_to_cart, popup.destroy(),
\* "Added"; up to its return or up to the "Stock" warning of add_to_cart.
AddFromPopup(p, qty) ==
    LET r == add_to_cart(cart, products, p, qty) IN
    /\ pc = AtMainloop
    /\ cart' = r.cart
    /\ IF r.dialogs = <<>> THEN
          /\ last' = Event("add_to_cart", r.status, <<"Added">>)
          /\ UNCHANGED pc
       ELSE
          /\ last' = Event("add_to_cart", "showwarning", r.dialogs)
          /\ pc' = AtStockBox("open_product_popup: showwarning", r.dialogs)
    /\ UNCHANGED <<products, orders, cartWins, checkoutWins, earlier>>

\* The lambda after the OK of the "Stock" warning: add_to_cart returns, and
\* the "Added" box follows (after popup.destroy() in the popup).
AddedAfterStockBox ==
    /\ InStockBox
    /\ last' = Event("add_to_cart", "returned", pc.dialogs \o <<"Added">>)
    /\ pc' = AtMainloop
    /\ UNCHANGED <<products, cart, orders, cartWins, checkoutWins, earlier>>

\* -------------------------------------------------------- open_cart_window
FreeCartWin == CHOOSE w \in 1..MaxCartWins :
                  /\ ~cartWins[w].open
                  /\ \A v \in 1..MaxCartWins : ~cartWins[v].open => w <= v

\* "Cart (n) - View" / "Open Cart".  With an empty cart the window holds a
\* label and no control: it has no callback and is not kept.
open_cart_window ==
    /\ pc = AtMainloop
    /\ IF cart = <<>> THEN
          /\ UNCHANGED cartWins
          /\ last' = Event("open_cart_window", "returned", <<>>)
       ELSE
          /\ \E w \in 1..MaxCartWins : ~cartWins[w].open
          /\ cartWins' = [cartWins EXCEPT ![FreeCartWin] =
                            [open |-> TRUE, rows |-> CartPids(cart),
                             subtotal |-> subtotal_of(products, cart)]]
          /\ last' = Event("open_cart_window", "done", <<>>)
    /\ UNCHANGED <<products, cart, orders, checkoutWins, pc, earlier>>

\* The window manager's close button of a cart window; it also works while
\* a message box is up.
CloseCartWindow(w) ==
    /\ InEventLoop
    /\ cartWins[w].open
    /\ cartWins' = [cartWins EXCEPT ![w] = ClosedCartWin]
    /\ last' = Event("close_cart_window", "done", <<>>)
    /\ UNCHANGED <<products, cart, orders, checkoutWins, pc, earlier>>

\* update_qty without the stock check.
update_qty_no_check(w, sel, newq) ==
    /\ pc = AtMainloop
    /\ cartWins[w].open
    /\ sel \in cartWins[w].rows \cup {NoSel}
    /\ IF sel = NoSel THEN
          /\ last' = Event("update_qty", "returned", <<"Select">>)
          /\ UNCHANGED cart
       ELSE IF ~InCart(cart, sel) THEN
          \* self.cart[pid] raises KeyError
          /\ last' = Event("update_qty", "KeyError", <<>>)
          /\ UNCHANGED cart
       ELSE IF FALSE THEN
          /\ last' = Event("update_qty", "returned", <<"Stock: not enough for that quantity">>)
          /\ UNCHANGED cart
       ELSE
          /\ cart' = SetQty(cart, sel, newq)
          /\ last' = Event("update_qty", "done", <<>>)
    /\ UNCHANGED <<products, orders, cartWins, checkoutWins, pc, earlier>>

\* update_qty accepting one unit more than the stock.
update_qty_off_by_one(w, sel, newq) ==
    /\ pc = AtMainloop
    /\ cartWins[w].open
    /\ sel \in cartWins[w].rows \cup {NoSel}
    /\ IF sel = NoSel THEN
          /\ last' = Event("update_qty", "returned", <<"Select">>)
          /\ UNCHANGED cart
       ELSE IF ~InCart(cart, sel) THEN
          \* self.cart[pid] raises KeyError
          /\ last' = Event("update_qty", "KeyError", <<>>)
          /\ UNCHANGED cart
       ELSE IF newq > products[sel].stock + 1 THEN
          /\ last' = Event("update_qty", "returned", <<"Stock: not enough for that quantity">>)
          /\ UNCHANGED cart
       ELSE
          /\ cart' = SetQty(cart, sel, newq)
          /\ last' = Event("update_qty", "done", <<>>)
    /\ UNCHANGED <<products, orders, cartWins, checkoutWins, pc, earlier>>

\* "Update Qty" of cart window w, with tree selection sel and the spinbox
\* holding newq.
update_qty(w, sel, newq) ==
    /\ pc = AtMainloop
    /\ cartWins[w].open
    /\ sel \in cartWins[w].rows \cup {NoSel}
    /\ IF sel = NoSel THEN
          /\ last' = Event("update_qty", "returned", <<"Select">>)
          /\ UNCHANGED cart
       ELSE IF ~InCart(cart, sel) THEN
          \* self.cart[pid] raises KeyError
          /\ last' = Event("update_qty", "KeyError", <<>>)
          /\ UNCHANGED cart
       ELSE IF newq > products[sel].stock THEN
          /\ last' = Event("update_qty", "returned", <<"Stock: not enough for that quantity">>)
          /\ UNCHANGED cart
       ELSE
          /\ cart' = SetQty(cart, sel, newq)
          /\ last' = Event("update_qty", "done", <<>>)
    /\ UNCHANGED <<products, orders, cartWins, checkoutWins, pc, earlier>>

\* "Remove Item" of cart window w, with tree selection sel.
remove_item(w, sel) ==
    /\ pc = AtMainloop
    /\ cartWins[w].open
    /\ sel \in cartWins[w].rows \cup {NoSel}
    /\ IF sel = NoSel THEN
          /\ last' = Event("remove_item", "returned", <<"Select">>)
          /\ UNCHANGED <<cart, cartWins>>
       ELSE IF ~InCart(cart, sel) THEN
          \* del self.cart[pid] raises KeyError
          /\ last' = Event("remove_item", "KeyError", <<>>)
          /\ UNCHANGED <<cart, cartWins>>
       ELSE
          /\ cart' = DelItem(cart, sel)
          /\ cartWins' = [cartWins EXCEPT ![w] =
                IF cart' = <<>> THEN ClosedCartWin
                ELSE [@ EXCEPT !.rows = @ \ {sel}]]
          /\ last' = Event("remove_item", "done", <<>>)
    /\ UNCHANGED <<products, orders, checkoutWins, pc, earlier>>

\* ---------------------------------------------------- open_checkout_window
FreeCheckoutWin == CHOOSE w \in 1..MaxCheckoutWins :
                      /\ ~checkoutWins[w].open
                      /\ \A v \in 1..MaxCheckoutWins :
                            ~checkoutWins[v].open => w <= v

\* "Checkout" of cart window w: cart_win.destroy(), open_checkout_window().
open_checkout_window(w) ==
    /\ pc = AtMainloop
    /\ cartWins[w].open
    /\ cartWins' = [cartWins EXCEPT ![w] = ClosedCartWin]
    /\ IF cart = <<>> THEN
          /\ last' = Event("open_checkout_window", "returned", <<"Empty">>)
          /\ UNCHANGED checkoutWins
       ELSE
          /\ \E c \in 1..MaxCheckoutWins : ~checkoutWins[c].open
          /\ checkoutWins' = [checkoutWins EXCEPT ![FreeCheckoutWin] =
                [open |-> TRUE, subtotal |-> subtotal_of(products, cart)]]
          /\ last' = Event("open_checkout_window", "done", <<>>)
    /\ UNCHANGED <<products, cart, orders, pc, earlier>>

\* The window manager's close button of a checkout window; it also works
\* while a message box is up.
CloseCheckoutWindow(w) ==
    /\ InEventLoop
    /\ checkoutWins[w].open
    /\ checkoutWins' = [checkoutWins EXCEPT ![w] = ClosedCheckoutWin]
    /\ last' = Event("close_checkout_window", "done", <<>>)
    /\ UNCHANGED <<products, cart, orders, cartWins, pc, earlier>>

\* save_order writing its row over the table (INSERT OR REPLACE on one key).
save_order_replace(rows, customer_name, email, address, total, details) ==
    <<[customer_name |-> customer_name, email |-> email,
       address |-> address, total |-> total, details |-> details]>>

\* save_order: one INSERT; the row appended to the orders table.  The REAL
\* column holds float(total), the double nearest to the 2-decimal amount;
\* amounts of different cents have different nearest doubles, and the row
\* keeps the amount in cents that identifies the double.
save_order(rows, customer_name, email, address, total, details) ==
    Append(rows, [customer_name |-> customer_name, email |-> email,
                  address |-> address, total |-> total,
                  details |-> details])

\* place_order testing the fields as typed, without strip().
place_order_no_strip(w, form, dbOk) ==
    LET name    == form[1]
        email   == form[2]
        address == strip(form[3])
        details == details_of(products, cart)
    IN
    /\ pc = AtMainloop
    /\ checkoutWins[w].open
    /\ IF name = "" \/ email = "" \/ address = "" THEN
          /\ last' = Event("place_order", "returned", <<"Missing">>)
          /\ UNCHANGED <<products, cart, orders, pc>>
       ELSE IF ~dbOk THEN
          /\ last' = Event("place_order", "sqlite3.Error", <<>>)
          /\ UNCHANGED <<products, cart, orders, pc>>
       ELSE
          /\ orders' = save_order(orders, strip(name), email, address,
                                  checkoutWins[w].subtotal, details)
          /\ last' = Event("place_order", "saved", <<"Order placed">>)
          /\ pc' = AtOrderPlacedBox(w)
          /\ UNCHANGED <<products, cart>>
    /\ UNCHANGED <<cartWins, checkoutWins, earlier>>

\* place_order reducing the stock before save_order is called.
place_order_stock_first(w, form, dbOk) ==
    LET name    == strip(form[1])
        email   == strip(form[2])
        address == strip(form[3])
        details == details_of(products, cart)
    IN
    /\ pc = AtMainloop
    /\ checkoutWins[w].open
    /\ IF name = "" \/ email = "" \/ address = "" THEN
          /\ last' = Event("place_order", "returned", <<"Missing">>)
          /\ UNCHANGED <<products, cart, orders, pc>>
       ELSE IF ~dbOk THEN
          /\ last' = Event("place_order", "sqlite3.Error", <<>>)
          /\ products' = reduce_stock(products, cart)
          /\ UNCHANGED <<cart, orders, pc>>
       ELSE
          /\ orders' = save_order(orders, name, email, address,
                                  checkoutWins[w].subtotal, details)
          /\ last' = Event("place_order", "saved", <<"Order placed">>)
          /\ pc' = AtOrderPlacedBox(w)
          /\ UNCHANGED <<products, cart>>
    /\ UNCHANGED <<cartWins, checkoutWins, earlier>>

\* "Place Order" of checkout window w, up to its return or, when the order
\* is saved, up to the "Order placed" box, which waits for its OK in an event
\* loop of its own.  dbOk: whether sqlite3 carries the INSERT out; when it
\* does not, save_order raises and the callback ends.
place_order(w, form, dbOk) ==
    LET name    == strip(form[1])
        email   == strip(form[2])
        address == strip(form[3])
        details == details_of(products, cart)
    IN
    /\ pc = AtMainloop
    /\ checkoutWins[w].open
    /\ IF name = "" \/ email = "" \/ address = "" THEN
          /\ last' = Event("place_order", "returned", <<"Missing">>)
          /\ UNCHANGED <<products, cart, orders, pc>>
       ELSE IF ~dbOk THEN
          /\ last' = Event("place_order", "sqlite3.Error", <<>>)
          /\ UNCHANGED <<products, cart, orders, pc>>
       ELSE
          /\ orders' = save_order(orders, name, email, address,
                                  checkoutWins[w].subtotal, details)
          /\ last' = Event("place_order", "saved", <<"Order placed">>)
          /\ pc' = AtOrderPlacedBox(w)
          /\ UNCHANGED <<products, cart>>
    /\ UNCHANGED <<cartWins, checkoutWins, earlier>>

\* place_order after the OK of its "Order placed" box: the stock loop,
\* cart.clear(), the refreshes and win.destroy() (which does nothing more if
\* the window was closed while the box was up).
place_order_finish ==
    /\ pc.at = "place_order: showinfo"
    /\ products' = reduce_stock(products, cart)
    /\ cart' = <<>>
    /\ checkoutWins' = [checkoutWins EXCEPT ![pc.win] = ClosedCheckoutWin]
    /\ last' = Event("place_order", "done", <<"Order placed">>)
    /\ pc' = AtMainloop
    /\ UNCHANGED <<orders, cartWins, earlier>>

\* The window manager's close button of the main window (no handler is
\* installed, Tk destroys the application and every window with it).  In the
\* main loop, mainloop() returns.  In the "Order placed" box, showinfo raises
\* TclError and place_order ends at line 430: the stock loop, cart.clear()
\* and the refreshes never run; mainloop() returns after it.  In the "Stock"
\* warning of a lambda's add_to_cart, showwarning raises TclError and the
\* lambda ends there, before its "Added" box.
CloseMainWindow ==
    /\ InEventLoop
    /\ cartWins' = [w \in 1..MaxCartWins |-> ClosedCartWin]
    /\ checkoutWins' = [w \in 1..MaxCheckoutWins |-> ClosedCheckoutWin]
    /\ last' = IF pc.at = "place_order: showinfo"
               THEN Event("place_order", "TclError", pc.dialogs)
               ELSE IF InStockBox
               THEN Event("add_to_cart", "TclError", pc.dialogs)
               ELSE Event("close_main_window", "done", <<>>)
    /\ pc' = AtExit
    /\ UNCHANGED <<products, cart, orders, earlier>>

\* -------------------------------------------------------------------- Next
\* One step of the GUI thread; the orders table is kept to maxOrders rows,
\* those of earlier runs included.
NextWith(maxOrders) ==
    \/ \E p \in DOMAIN products : AddFromCard(p)
    \/ \E p \in DOMAIN products, q \in QtyInputs : AddFromDetail(p, q)
    \/ \E p \in DOMAIN products, q \in QtyInputs : AddFromPopup(p, q)
    \/ AddedAfterStockBox
    \/ open_cart_window
    \/ \E w \in 1..MaxCartWins : CloseCartWindow(w)
    \/ \E w \in 1..MaxCartWins, s \in DOMAIN products \cup {NoSel},
          q \in QtyInputs :
          update_qty(w, s, q)
    \/ \E w \in 1..MaxCartWins, s \in DOMAIN products \cup {NoSel} :
          remove_item(w, s)
    \/ \E w \in 1..MaxCartWins : open_checkout_window(w)
    \/ \E w \in 1..MaxCheckoutWins : CloseCheckoutWindow(w)
    \/ \E w \in 1..MaxCheckoutWins, f \in FormInputs, ok \in BOOLEAN :
          /\ ok => Len(orders) < maxOrders
          /\ place_order(w, f, ok)
    \/ place_order_finish
    \/ CloseMainWindow

Next == NextWith(MaxOrders)

Spec == Init /\ [][Next]_vars

\* Sessions of several orders: StoreApp on the first product alone, the
\* orders table kept to MaxRepeatOrders rows.
RepeatProductsData == SubSeq(ProductsData, 1, 1)

InitRepeat ==
    \/ Launch(SAMPLE_PRODUCTS)
    \/ Launch(RepeatProductsData)

NextRepeat == NextWith(MaxRepeatOrders)

SpecRepeat == InitRepeat /\ [][NextRepeat]_vars

\* ------------------------------------------------- the whole seed catalogue
\* The most entries a cart of the seed-catalogue sessions starts with.
MaxSeedCartLen == 2

SeedPids == {SAMPLE_PRODUCTS[i].id : i \in 1..Len(SAMPLE_PRODUCTS)}

\* The seed dict of product p.
SeedOf(p) ==
    SAMPLE_PRODUCTS[CHOOSE i \in 1..Len(SAMPLE_PRODUCTS) :
                        SAMPLE_PRODUCTS[i].id = p]

\* The price literals of SAMPLE_PRODUCTS read as decimal numbers, in whole
\* cents: 19.99, 89.50, 24.00, 120.00, 45.25, 12.75; indexed by the product
\* id (the seed ids are 1..6, in this order).
SeedPriceCents == <<1999, 8950, 2400, 12000, 4525, 1275>>

\* The cart entries add_to_cart can create from the seed catalogue: any
\* product with a quantity from 1 to its stock.
SeedEntries ==
    UNION { {[pid |-> p, qty |-> q] : q \in 1..SeedOf(p).stock} : p \in SeedPids }

\* The carts of n entries a session on the seed catalogue can have built
\* before any order: entries of different products, in any order of
\* insertion.
SeedCarts(n) ==
    { c \in [1..n -> SeedEntries] :
         \A i, j \in 1..n : c[i].pid = c[j].pid => i = j }

\* The seed products under the keys of Product.__init__.
SeedData ==
    [i \in 1..Len(SAMPLE_PRODUCTS) |->
        [pid   |-> SAMPLE_PRODUCTS[i].id,
         price |-> SAMPLE_PRODUCTS[i].price,
         stock |-> SAMPLE_PRODUCTS[i].stock]]

\* main() as written, or StoreApp built from the six seed products keyed
\* pid and taken up once a cart has been filled with add_to_cart and before
\* a cart window is opened.
InitSeed ==
    \/ Launch(SAMPLE_PRODUCTS)
    \/ \E n \in 0..MaxSeedCartLen : Started(SeedData, SeedCarts(n))

\* From such a cart: viewing it, checking out and placing the order.
NextSeed ==
    \/ open_cart_window
    \/ \E w \in 1..MaxCartWins : CloseCartWindow(w)
    \/ \E w \in 1..MaxCartWins : open_checkout_window(w)
    \/ \E w \in 1..MaxCheckoutWins : CloseCheckoutWindow(w)
    \/ \E w \in 1..MaxCheckoutWins, f \in FormInputs, ok \in BOOLEAN :
          /\ ok => Len(orders) < MaxOrders
          /\ place_order(w, f, ok)
    \/ place_order_finish
    \/ CloseMainWindow

SpecSeed == InitSeed /\ [][NextSeed]_vars

\* The stock StoreApp.__init__ gave product p.
InitStock(p) ==
    ProductsData[CHOOSE i \in 1..NumProducts : ProductsData[i].pid = p].stock

\* The sum of the line totals of an order record's details lines.
RECURSIVE DetailsSum(_)
DetailsSum(d) == IF d = <<>> THEN 0 ELSE Head(d).line + DetailsSum(Tail(d))

\* The units of product p in the details lines d of one order record.
RECURSIVE UnitsIn(_, _)
UnitsIn(d, p) ==
    IF d = <<>> THEN 0
    ELSE (IF Head(d).pid = p THEN Head(d).qty ELSE 0) + UnitsIn(Tail(d), p)

\* The units of product p in the line items of all the order records.
RECURSIVE OrderedUnits(_, _)
OrderedUnits(rows, p) ==
    IF rows = <<>> THEN 0
    ELSE UnitsIn(Head(rows).details, p) + OrderedUnits(Tail(rows), p)

\* The step is a call add_to_cart(p, q), from any of the three buttons.
AddStep(p, q) ==
    \/ q = 1 /\ AddFromCard(p)
    \/ AddFromDetail(p, q)
    \/ AddFromPopup(p, q)

\* ================================================================== claims

\* C1: in every reachable state every cart entry has a quantity that is at
\* most the current stock of the product it references.
C1_QtyWithinStock ==
    \A i \in 1..Len(cart) : cart[i].qty <= products[cart[i].pid].stock

\* C1 witness: after an order has reduced a product's stock, the cart holds
\* an entry for that product whose quantity is exactly the stock left.
C1_Witness ==
    /\ Len(orders) > 0
    /\ \E i \in 1..Len(cart) :
          /\ cart[i].qty > 0
          /\ products[cart[i].pid].stock < InitStock(cart[i].pid)
          /\ cart[i].qty = products[cart[i].pid].stock

\* C2: the total of every order record equals the sum of the line totals of
\* the cart place_order was invoked on, the cart its details lines are built
\* from.
C2_TotalIsCartSum ==
    \A i \in 1..Len(orders) : orders[i].total = DetailsSum(orders[i].details)

\* C3: no order record is created from an empty cart: save_order never runs
\* while the cart has no entries.
C3_NoOrderFromEmptyCart ==
    \A i \in 1..Len(orders) : orders[i].details # <<>>

\* C4: when save_order fails in place_order, the cart, every product's stock
\* and the orders table are as before the attempt; and stock is decremented,
\* or the cart cleared by place_order, only by a place_order that is past
\* its "Order placed" box, which it reaches only in the step in which
\* save_order has appended its row.
C4_FailedSaveNoEffect ==
    [][ /\ (last'.op = "place_order" /\ last'.status = "sqlite3.Error")
            => (cart' = cart /\ products' = products /\ orders' = orders)
        /\ (products' # products \/ (last'.op = "place_order" /\ cart' # cart))
            => pc.at = "place_order: showinfo"
        /\ (pc'.at = "place_order: showinfo" /\ pc.at # "place_order: showinfo")
            => /\ last'.op = "place_order"
               /\ last'.status = "saved"
               /\ Len(orders') = Len(orders) + 1 ]_vars

\* C4 witness: a place_order whose save_order raised, on a cart with entries.
C4_Witness ==
    /\ last.op = "place_order"
    /\ last.status = "sqlite3.Error"
    /\ cart # <<>>

\* C5: no cart entry has a quantity <= 0 and no product id has two entries.
C5_PositiveUniqueEntries ==
    /\ \A i \in 1..Len(cart) : cart[i].qty > 0
    /\ \A i, j \in 1..Len(cart) : cart[i].pid = cart[j].pid => i = j

\* C6: no product's stock is ever negative.
C6_StockNonNegative ==
    \A p \in DOMAIN products : products[p].stock >= 0

\* C6 witness: the second of two successful place_order calls, each for at
\* least one unit of the same product, has just taken that product's last
\* unit.
C6_Witness ==
    /\ last.op = "place_order"
    /\ last.status = "done"
    /\ earlier = 0
    /\ Len(orders) = 2
    /\ \E p \in DOMAIN products :
          /\ products[p].stock = 0
          /\ \A i \in 1..2 :
                \E k \in 1..Len(orders[i].details) :
                   orders[i].details[k].pid = p /\ orders[i].details[k].qty > 0

\* C7 as stated: after a successful place_order, one that has saved its
\* order and shown "Order placed", each product that had a cart entry has its
\* stock reduced by exactly that entry's quantity, every other product's
\* stock is unchanged, and the cart is empty: whenever the callback leaves
\* its box, by whichever way it ends.
C7_OrderReducesStock ==
    [][ (pc.at = "place_order: showinfo" /\ pc'.at # "place_order: showinfo")
          => /\ cart' = <<>>
             /\ \A p \in DOMAIN products :
                   products'[p].stock =
                      products[p].stock
                        - (IF InCart(cart, p) THEN QtyOf(cart, p) ELSE 0) ]_vars

C9_AddSetsQty ==
    [][ \A p \in Pids, q \in QtyInputs :
          ( /\ last'.op = "add_to_cart"
            /\ 0 < q /\ q <= products[p].stock
            /\ AddStep(p, q) )
            => /\ last'.status \in {"created", "incremented"}
               /\ InCart(cart', p)
               /\ QtyOf(cart', p) = q ]_vars

\* C9 as amended: for every product p that has no cart entry and every q with
\* 0 < q <= p.stock, add_to_cart(p, q) succeeds and leaves the entry of p
\* with quantity q, the other entries as they were.
C9_AddToAbsentSetsQty ==
    [][ \A p \in Pids, q \in QtyInputs :
          ( /\ last'.op = "add_to_cart"
            /\ 0 < q /\ q <= products[p].stock
            /\ ~InCart(cart, p)
            /\ AddStep(p, q) )
            => /\ last'.status = "created"
               /\ InCart(cart', p)
               /\ QtyOf(cart', p) = q
               /\ \A r \in Pids \ {p} :
                     /\ InCart(cart', r) <=> InCart(cart, r)
                     /\ InCart(cart, r) => QtyOf(cart', r) = QtyOf(cart, r) ]_vars

\* C9 witness: an add has just created an entry holding the whole stock of
\* its product, next to another product's entry.
C9_Witness ==
    /\ last.op = "add_to_cart"
    /\ last.status = "created"
    /\ Len(cart) = 2
    /\ cart[2].qty = products[cart[2].pid].stock
    /\ cart[2].qty = MaxStock

\* C10: update_qty with a quantity above the stock of the selected entry's
\* product is rejected with the stock warning and leaves the cart, that
\* entry's quantity included, as it was.
C10_UpdateOverStock ==
    [][ \A w \in 1..MaxCartWins, s \in Pids, q \in QtyInputs :
          ( /\ last'.op = "update_qty"
            /\ InCart(cart, s)
            /\ q > products[s].stock
            /\ update_qty(w, s, q) )
            => /\ cart' = cart
               /\ last'.status = "returned"
               /\ last'.dialogs = <<"Stock: not enough for that quantity">> ]_vars

\* C10 witness: update_qty has just shown the stock warning on a cart of two
\* entries.
C10_Witness ==
    /\ last.op = "update_qty"
    /\ last.dialogs = <<"Stock: not enough for that quantity">>
    /\ Len(cart) = 2

\* C11 as stated: update_qty with a quantity <= 0 on a selected entry is
\* rejected with a message, and the cart, that entry's quantity included,
\* is left as it was: no zero or negative quantity is stored and the entry is
\* not removed.
C11_NonPositiveUpdateRejected ==
    [][ \A w \in 1..MaxCartWins, s \in Pids, q \in QtyInputs :
          ( /\ last'.op = "update_qty"
            /\ InCart(cart, s)
            /\ q <= 0
            /\ update_qty(w, s, q) )
            => /\ cart' = cart
               /\ last'.status = "returned"
               /\ Len(last'.dialogs) > 0 ]_vars

\* C12 as stated: remove_item on a selected row whose product has no cart
\* entry leaves the cart unchanged and raises no exception.
C12_RemoveAbsentIsNoOp ==
    [][ \A w \in 1..MaxCartWins, s \in Pids :
          ( /\ last'.op = "remove_item"
            /\ ~InCart(cart, s)
            /\ remove_item(w, s) )
            => /\ cart' = cart
               /\ last'.status # "KeyError" ]_vars

\* C13: place_order with a name, email or address that is empty after
\* strip() shows the "Missing" warning and returns: save_order is not called
\* (the orders table is as before) and the cart and every product's stock are
\* unchanged.
C13_MissingFieldRejected ==
    [][ \A w \in 1..MaxCheckoutWins, f \in FormInputs, ok \in BOOLEAN :
          ( /\ last'.op = "place_order"
            /\ (strip(f[1]) = "" \/ strip(f[2]) = "" \/ strip(f[3]) = "")
            /\ place_order(w, f, ok) )
            => /\ orders' = orders
               /\ cart' = cart
               /\ products' = products
               /\ last'.status = "returned"
               /\ last'.dialogs = <<"Missing">> ]_vars

\* C13 witness: place_order has just shown "Missing" on a cart with entries,
\* no order placed so far.
C13_Witness ==
    /\ last.op = "place_order"
    /\ last.status = "returned"
    /\ last.dialogs = <<"Missing">>
    /\ cart # <<>>
    /\ orders = <<>>

\* C14: the set of products never changes, and a product's stock (and
\* price) changes only in a step that is the end of a successful
\* place_order, one that has appended its order record in this session;
\* every other step, failed and rejected checkouts and the saving of the
\* order included, leaves every product as it was.
C14_StockOnlyInOrder ==
    [][ /\ DOMAIN products' = DOMAIN products
        /\ (\E p \in DOMAIN products : products'[p].stock # products[p].stock)
              => /\ last'.op = "place_order"
                 /\ last'.status = "done"
                 /\ pc.at = "place_order: showinfo"
                 /\ Len(orders) > earlier
        /\ (last'.op # "place_order" \/ last'.status # "done")
              => products' = products ]_vars

\* C14 witness: after an order has reduced a stock, update_qty has just
\* stored a quantity in an entry, and the stocks are still what the order
\* left.
C14_Witness ==
    /\ last.op = "update_qty"
    /\ last.status = "done"
    /\ Len(orders) = 1
    /\ cart # <<>>
    /\ \E p \in Pids :
          /\ products[p].stock < InitStock(p)
          /\ \E k \in 1..Len(orders[1].details) :
                /\ orders[1].details[k].pid = p
                /\ products[p].stock = InitStock(p) - orders[1].details[k].qty

\* C15: the orders table is append-only: a successful place_order appends
\* exactly one row, in the step that ends at its "Order placed" box, and
\* none in its step after the box; every other step leaves the table as it
\* is; and the rows already there, those of earlier runs included, are never
\* changed or removed.
C15_OrdersAppendOnly ==
    [][ /\ Len(orders') >= Len(orders)
        /\ SubSeq(orders', 1, Len(orders)) = orders
        /\ (last'.op = "place_order" /\ last'.status = "saved")
              => Len(orders') = Len(orders) + 1
        /\ (last'.op # "place_order" \/ last'.status # "saved")
              => orders' = orders
        /\ (last'.op = "place_order" /\ last'.status = "done")
              => (pc.at = "place_order: showinfo" /\ Len(orders) > earlier) ]_vars

\* C15 witness: the second successful place_order of a session has ended,
\* its row appended after the row of the first and the row an earlier run
\* left, which is still the first one.
C15_Witness ==
    /\ last.op = "place_order"
    /\ last.status = "done"
    /\ earlier = 1
    /\ Len(orders) = 3
    /\ orders[1] \in EarlierRows
    /\ orders[2].customer_name = "Ann"
    /\ orders[2].details # <<>>
    /\ orders[3].customer_name = "Ann"
    /\ orders[3].details # orders[2].details

\* The message boxes that report a rejection.
ErrorDialogs ==
    { "Stock: not enough for that quantity", "Stock: not enough to increase",
      "Empty", "Missing" }

\* C16 as stated: every rejected action (add_to_cart or update_qty with a
\* quantity that is <= 0 or above the stock, checkout of an empty cart,
\* place_order with a missing field) shows a message that reports the
\* rejection and leaves the cart as it was.
C16_RejectionsReported ==
    [][ /\ \A p \in Pids, q \in QtyInputs :
              ( /\ last'.op = "add_to_cart"
                /\ (q <= 0 \/ q > products[p].stock)
                /\ AddStep(p, q) )
                => /\ cart' = cart
                   /\ \E i \in 1..Len(last'.dialogs) :
                         last'.dialogs[i] \in ErrorDialogs
        /\ \A w \in 1..MaxCartWins, s \in Pids, q \in QtyInputs :
              ( /\ last'.op = "update_qty"
                /\ InCart(cart, s)
                /\ (q <= 0 \/ q > products[s].stock)
                /\ update_qty(w, s, q) )
                => /\ cart' = cart
                   /\ \E i \in 1..Len(last'.dialogs) :
                         last'.dialogs[i] \in ErrorDialogs
        /\ (last'.op = "open_checkout_window" /\ cart = <<>>)
              => /\ cart' = cart
                 /\ \E i \in 1..Len(last'.dialogs) :
                       last'.dialogs[i] \in ErrorDialogs
        /\ (last'.op = "place_order" /\ last'.status = "returned")
              => /\ cart' = cart
                 /\ \E i \in 1..Len(last'.dialogs) :
                       last'.dialogs[i] \in ErrorDialogs ]_vars

\* C20 as stated: the detail panel and the detail popup show "Added" only
\* when their add_to_cart(p, q) call raised the cart quantity of p by q.
C20_AddedOnlyAfterIncrease ==
    [][ \A p \in Pids, q \in QtyInputs :
          ( /\ last'.op = "add_to_cart"
            /\ (AddFromDetail(p, q) \/ AddFromPopup(p, q))
            /\ \E i \in 1..Len(last'.dialogs) : last'.dialogs[i] = "Added" )
            => /\ q > 0
               /\ InCart(cart', p)
               /\ QtyOf(cart', p)
                    = (IF InCart(cart, p) THEN QtyOf(cart, p) ELSE 0) + q ]_vars

\* C17: line_total is exact on the seed catalogue: for every seed product
\* and every quantity from 1 to its stock, line_total is the price in whole
\* cents times the quantity (19.99 x 3 is 59.97); and every details line of
\* an order record carries that amount.
C17_LineTotalExact ==
    /\ \A p \in DOMAIN products :
          \A q \in 1..SeedOf(p).stock :
             line_total(products, [pid |-> p, qty |-> q]) = SeedPriceCents[p] * q
    /\ 1 \in DOMAIN products
          => line_total(products, [pid |-> 1, qty |-> 3]) = 5997
    /\ \A i \in 1..Len(orders) :
          \A k \in 1..Len(orders[i].details) :
             orders[i].details[k].line
                = SeedPriceCents[orders[i].details[k].pid]
                    * orders[i].details[k].qty

\* C17 witness: an order record holds the line of 3 units of the 19.99
\* product, 59.97, next to a line of the whole stock of another product.
C17_Witness ==
    /\ DOMAIN products = SeedPids
    /\ Len(orders) = 1
    /\ Len(orders[1].details) = 2
    /\ orders[1].details[1] = [qty |-> 3, pid |-> 1, line |-> 5997]
    /\ orders[1].details[2].qty = SeedOf(orders[1].details[2].pid).stock

\* C18: the subtotal open_cart_window and open_checkout_window compute is
\* the sum of the rounded line totals of the entries the cart has at that
\* moment; for 19.99 x 3 and 45.25 x 1 it is 105.22.
C18_SubtotalIsSumOfLines ==
    [][ /\ (last'.op = "open_cart_window" /\ last'.status = "done")
              => /\ cartWins'[FreeCartWin].subtotal
                      = DetailsSum(details_of(products, cart))
                 /\ cart = <<[pid |-> 1, qty |-> 3], [pid |-> 5, qty |-> 1]>>
                       => cartWins'[FreeCartWin].subtotal = 10522
        /\ (last'.op = "open_checkout_window" /\ last'.status = "done")
              => /\ checkoutWins'[FreeCheckoutWin].subtotal
                      = DetailsSum(details_of(products, cart))
                 /\ cart = <<[pid |-> 1, qty |-> 3], [pid |-> 5, qty |-> 1]>>
                       => checkoutWins'[FreeCheckoutWin].subtotal = 10522 ]_vars

\* C18 witness: a checkout window has just been opened on the cart of
\* 19.99 x 3 and 45.25 x 1 and holds the subtotal 105.22.
C18_Witness ==
    /\ last.op = "open_checkout_window"
    /\ last.status = "done"
    /\ cart = <<[pid |-> 1, qty |-> 3], [pid |-> 5, qty |-> 1]>>
    /\ \E w \in 1..MaxCheckoutWins :
          checkoutWins[w].open /\ checkoutWins[w].subtotal = 10522

\* C19 as stated: units are conserved: in every reachable state, for each
\* product, the stock StoreApp.__init__ gave it minus its current stock is
\* the total quantity of that product in the line items of all order records.
C19_UnitsConserved ==
    \A p \in DOMAIN products :
       InitStock(p) - products[p].stock = OrderedUnits(orders, p)

\* C21 as stated: while a cart window is open, the subtotal it displays is
\* the sum of the line totals of the current cart, after every update_qty
\* and remove_item made in that window and after every add_to_cart made from
\* the main window.
C21_WindowSubtotalCurrent ==
    \A w \in 1..MaxCartWins :
       cartWins[w].open => cartWins[w].subtotal = subtotal_of(products, cart)
====
